---------------------------- MODULE Spec2Model ----------------------------
(***************************************************************************)
(* The procurement workflow of workflow/run_workflow.py: a driver (main)   *)
(* that reads requests and runs, for each, the linear graph                *)
(* START -> intake -> supplier -> approval -> END over a state dictionary, *)
(* with the three agents of agents/*.py.                                   *)
(*                                                                         *)
(* Python strings are sequences of one-character strings, so that the      *)
(* regular expressions, strip(), lower(), int() and the f-strings of the   *)
(* code are computed character by character.  Python dicts and lists are   *)
(* objects on a heap (dicts, lists), addressed by <<owner, n>>, so that    *)
(* aliasing and in-place mutation are expressible.                         *)
(***************************************************************************)
EXTENDS Integers, Sequences, FiniteSets, TLC

\* Longest requests file (in lines) the driver is run on.
MaxLines == 2

---------------------------------------------------------------------------
\* Characters and the str methods the code uses.

UpperCase == <<"A","B","C","D","E","F","G","H","I","J","K","L","M","N","O","P","Q","R","S","T","U","V","W","X","Y","Z">>
LowerCase == <<"a","b","c","d","e","f","g","h","i","j","k","l","m","n","o","p","q","r","s","t","u","v","w","x","y","z">>
DigitChars == <<"0","1","2","3","4","5","6","7","8","9">>

Range(s) == {s[i] : i \in DOMAIN s}

\* \d, \s and \w of the re module, on the characters of the model.
IsDigit(c) == c \in Range(DigitChars)
IsSpace(c) == c \in {" ", "\n", "\t"}
IsWord(c) == c \in Range(UpperCase) \cup Range(LowerCase) \cup Range(DigitChars) \cup {"_"}

DigitVal(c) == (CHOOSE i \in DOMAIN DigitChars : DigitChars[i] = c) - 1

\* str.lower(), one character.
LowerChar(c) ==
    IF c \in Range(UpperCase)
    THEN LowerCase[CHOOSE i \in DOMAIN UpperCase : UpperCase[i] = c]
    ELSE c

\* str.lower()
lower(s) == [i \in DOMAIN s |-> LowerChar(s[i])]

\* str.strip(): drop leading and trailing whitespace.
strip(s) ==
    LET keep == {i \in DOMAIN s : ~IsSpace(s[i])}
    IN  IF keep = {} THEN <<>>
        ELSE SubSeq(s, CHOOSE i \in keep : \A j \in keep : i <= j,
                       CHOOSE i \in keep : \A j \in keep : j <= i)

\* str.endswith(suffix)
endswith(s, suffix) ==
    /\ Len(suffix) <= Len(s)
    /\ SubSeq(s, Len(s) - Len(suffix) + 1, Len(s)) = suffix

\* int(text) for a string of decimal digits.
RECURSIVE int(_)
int(ds) ==
    IF ds = <<>> THEN 0
    ELSE int(SubSeq(ds, 1, Len(ds) - 1)) * 10 + DigitVal(ds[Len(ds)])

\* str(n) / the {n} of an f-string, for a natural number.
RECURSIVE str(_)
str(n) ==
    IF n < 10 THEN <<DigitChars[n + 1]>>
    ELSE str(n \div 10) \o <<DigitChars[(n % 10) + 1]>>

\* The last index of the maximal run of characters at i..  that are in class.
RECURSIVE RunEnd(_, _, _)
RunEnd(s, i, class) ==
    IF i < Len(s) /\ s[i + 1] \in class THEN RunEnd(s, i + 1, class) ELSE i

DigitClass == Range(DigitChars)
SpaceClass == {" ", "\n", "\t"}

\* re.sub(class+, " ", s): every maximal run of class becomes one space.
RECURSIVE SubRuns(_, _, _)
SubRuns(s, i, class) ==
    IF i > Len(s) THEN <<>>
    ELSE IF s[i] \in class
         THEN <<" ">> \o SubRuns(s, RunEnd(s, i, class) + 1, class)
         ELSE <<s[i]>> \o SubRuns(s, i + 1, class)

---------------------------------------------------------------------------
\* agents/intake_agent.py

\* The alternation of the verb pattern, in its order.
Verbs == <<
    <<"o","r","d","e","r">>,
    <<"b","u","y">>,
    <<"p","u","r","c","h","a","s","e">>,
    <<"g","e","t">>,
    <<"a","c","q","u","i","r","e">>,
    <<"r","e","q","u","e","s","t">> >>

\* \b(v)\b matches at i, ignoring case.
VerbAt(s, i, v) ==
    /\ i + Len(v) - 1 <= Len(s)
    /\ \A j \in DOMAIN v : LowerChar(s[i + j - 1]) = v[j]
    /\ (i = 1 \/ ~IsWord(s[i - 1]))
    /\ (i + Len(v) > Len(s) \/ ~IsWord(s[i + Len(v)]))

\* re.sub(r"\b(order|buy|purchase|get|acquire|request)\b", " ", s, IGNORECASE)
RECURSIVE SubVerbs(_, _)
SubVerbs(s, i) ==
    IF i > Len(s) THEN <<>>
    ELSE LET hit == {k \in DOMAIN Verbs : VerbAt(s, i, Verbs[k])}
         IN  IF hit # {}
             THEN LET k == CHOOSE k \in hit : \A m \in hit : k <= m
                  IN  <<" ">> \o SubVerbs(s, i + Len(Verbs[k]))
             ELSE <<s[i]>> \o SubVerbs(s, i + 1)

\* The first integer of the request, 1 when it has none.  (int() of the
\* matched digits cannot raise for the lengths modelled, so the
\* except ValueError branch is never taken.)
_extract_quantity(request) ==
    LET at == {i \in DOMAIN request : IsDigit(request[i])}
    IN  IF at # {}
        THEN LET first == CHOOSE i \in at : \A j \in at : i <= j
             IN  int(SubSeq(request, first, RunEnd(request, first, DigitClass)))
        ELSE 1

\* A plausible slip: the singular form is taken whatever the quantity.
_extract_item_always_singular(request, quantity) ==
    LET cleaned == lower(strip(SubRuns(SubVerbs(SubRuns(request, 1, DigitClass), 1), 1, SpaceClass)))
    IN  IF endswith(cleaned, <<"s">>) /\ ~endswith(cleaned, <<"s","s">>)
        THEN SubSeq(cleaned, 1, Len(cleaned) - 1)
        ELSE cleaned

\* Numbers and verbs removed, whitespace collapsed, lowercased; the trailing
\* "s" is dropped only when (quantity or 1) == 1.
_extract_item(request, quantity) ==
    LET cleaned == lower(strip(SubRuns(SubVerbs(SubRuns(request, 1, DigitClass), 1), 1, SpaceClass)))
    IN  IF (IF quantity = 0 THEN 1 ELSE quantity) = 1
           /\ endswith(cleaned, <<"s">>) /\ ~endswith(cleaned, <<"s","s">>)
        THEN SubSeq(cleaned, 1, Len(cleaned) - 1)
        ELSE cleaned

\* IntakeAgent.parse_request / _parse_to_dict
parse_request(request) ==
    LET quantity == _extract_quantity(request)
    IN  [item |-> _extract_item(request, quantity),
         quantity |-> quantity,
         raw_request |-> request]

---------------------------------------------------------------------------
\* agents/supplier_agent.py

\* The catalog build_graph gives the SupplierAgent.
item_to_supplier == {
    <<<<"l","a","p","t","o","p">>, <<"A","c","m","e"," ","C","o","m","p","u","t","e","r","s">>>>,
    <<<<"m","o","n","i","t","o","r">>, <<"D","i","s","p","l","a","y"," ","W","o","r","l","d">>>>,
    <<<<"m","o","u","s","e">>, <<"P","o","i","n","t","e","r"," ","P","r","o","s">>>>,
    <<<<"k","e","y","b","o","a","r","d">>, <<"K","e","y","C","o">>>>,
    <<<<"c","h","a","i","r">>, <<"O","f","f","i","c","e","C","o">>>>,
    <<<<"d","e","s","k">>, <<"F","u","r","n","i","s","h","I","t">>>> }

\* KeywordMappingRetriever._normalize
_normalize(text) ==
    LET t == lower(strip(text))
    IN  IF endswith(t, <<"s">>) /\ ~endswith(t, <<"s","s">>)
        THEN SubSeq(t, 1, Len(t) - 1)
        ELSE t

\* KeywordMappingRetriever._alt_normalize
_alt_normalize(text) ==
    IF endswith(text, <<"s">>) /\ ~endswith(text, <<"s","s">>)
    THEN SubSeq(text, 1, Len(text) - 1)
    ELSE text \o <<"s">>

\* self._mapping: the catalog with normalized keys.
_mapping == {<<_normalize(e[1]), e[2]>> : e \in item_to_supplier}

\* self._mapping.get(key), as the set of its (non-empty) values.
MappingGet(key) == {e[2] : e \in {m \in _mapping : m[1] = key /\ m[2] # <<>>}}

\* The page_content of the documents _get_relevant_documents returns.
_get_relevant_documents(query) ==
    LET key == _normalize(query)
    IN  IF MappingGet(key) # {} THEN MappingGet(key)
        ELSE MappingGet(_alt_normalize(key))

UnknownSupplier == <<"U","n","k","n","o","w","n"," ","S","u","p","p","l","i","e","r">>

\* SupplierAgent.get_supplier / _lookup_to_dict
get_supplier(item) ==
    LET docs == _get_relevant_documents(item)
    IN  [item |-> item,
         supplier |-> IF docs # {} THEN CHOOSE s \in docs : TRUE ELSE UnknownSupplier]

---------------------------------------------------------------------------
\* agents/approval_agent.py

\* ApprovalAgent(max_auto_approve_quantity=5)
max_auto_approve_quantity == 5

ReasonHead == <<"Q","u","a","n","t","i","t","y"," ">>
ReasonWithin == <<" ","i","s"," ","w","i","t","h","i","n"," ","a","u","t","o","-","a","p","p","r","o","v","a","l"," ","t","h","r","e","s","h","o","l","d"," ","(","<","="," ">>
ReasonExceeds == <<" ","e","x","c","e","e","d","s"," ","a","u","t","o","-","a","p","p","r","o","v","a","l"," ","t","h","r","e","s","h","o","l","d"," ","(",">"," ">>
ReasonTail == <<")",".">>

\* A plausible slip: a strict comparison.
decide_strict(quantity) ==
    IF quantity < max_auto_approve_quantity
    THEN [approved |-> TRUE,
          reason |-> ReasonHead \o str(quantity) \o ReasonWithin
                     \o str(max_auto_approve_quantity) \o ReasonTail]
    ELSE [approved |-> FALSE,
          reason |-> ReasonHead \o str(quantity) \o ReasonExceeds
                     \o str(max_auto_approve_quantity) \o ReasonTail]

\* ApprovalAgent.decide / _decide_to_dict
decide(quantity) ==
    IF quantity <= max_auto_approve_quantity
    THEN [approved |-> TRUE,
          reason |-> ReasonHead \o str(quantity) \o ReasonWithin
                     \o str(max_auto_approve_quantity) \o ReasonTail]
    ELSE [approved |-> FALSE,
          reason |-> ReasonHead \o str(quantity) \o ReasonExceeds
                     \o str(max_auto_approve_quantity) \o ReasonTail]

---------------------------------------------------------------------------
\* The heap: Python dicts and lists are objects; a dict holds its "logs"
\* list by reference.

None == <<"None", 0>>

\* The next free address of owner c.
NextAddr(ds, ls, c) ==
    <<c, Cardinality({a \in DOMAIN ds \cup DOMAIN ls : a[1] = c}) + 1>>

\* {**a, **b}
Merge(a, b) ==
    [k \in DOMAIN a \cup DOMAIN b |-> IF k \in DOMAIN b THEN b[k] ELSE a[k]]

\* The value of the state dict at address a, its logs list included
\* (what copy.deepcopy(state) would hold, what == compares).
Deep(ds, ls, a) ==
    [k \in DOMAIN ds[a] |-> IF k = "logs" THEN ls[ds[a][k]] ELSE ds[a][k]]

\* The heap with the objects of owner c dropped (the locals of its previous
\* call are garbage once the call has returned).
Collect(h, c) == [a \in {b \in DOMAIN h : b[1] # c} |-> h[a]]

---------------------------------------------------------------------------
\* workflow/run_workflow.py: the nodes of build_graph

ReceivedPrefix == <<"R","e","c","e","i","v","e","d"," ","r","e","q","u","e","s","t",":"," ">>
IntakePrefix == <<"I","n","t","a","k","e"," ","p","a","r","s","e","d",":"," ">>
SupplierPrefix == <<"S","u","p","p","l","i","e","r"," ","s","e","l","e","c","t","e","d",":"," ">>
ApprovalPrefix == <<"A","p","p","r","o","v","a","l"," ","d","e","c","i","s","i","o","n",":"," ">>

\* str() of the dicts the agents return, as the f-strings of the nodes embed
\* them (no string of the model holds a quote or a backslash).
ReprParsed(parsed) ==
    <<"{","'","i","t","e","m","'",":"," ","'">> \o parsed.item
    \o <<"'",","," ","'","q","u","a","n","t","i","t","y","'",":"," ">> \o str(parsed.quantity)
    \o <<","," ","'","r","a","w","_","r","e","q","u","e","s","t","'",":"," ","'">> \o parsed.raw_request
    \o <<"'","}">>

ReprLookup(lookup) ==
    <<"{","'","i","t","e","m","'",":"," ","'">> \o lookup.item
    \o <<"'",","," ","'","s","u","p","p","l","i","e","r","'",":"," ","'">> \o lookup.supplier
    \o <<"'","}">>

ReprDecision(decision) ==
    <<"{","'","a","p","p","r","o","v","e","d","'",":"," ">>
    \o (IF decision.approved THEN <<"T","r","u","e">> ELSE <<"F","a","l","s","e">>)
    \o <<","," ","'","r","e","a","s","o","n","'",":"," ","'">> \o decision.reason
    \o <<"'","}">>

NoError == [type |-> "None", arg |-> ""]
KeyError(key) == [type |-> "KeyError", arg |-> key]

\* A plausible slip: logs.append(entry) on the list the state holds.
AppendLogInPlace(ds, ls, c, state, entry) ==
    IF "logs" \in DOMAIN ds[state]
    THEN [lists |-> [ls EXCEPT ![ds[state].logs] = Append(@, entry)],
          ref |-> ds[state].logs]
    ELSE [lists |-> ls @@ (NextAddr(ds, ls, c) :> <<entry>>),
          ref |-> NextAddr(ds, ls, c)]

\* A plausible slip: the earlier entries are not carried over.
AppendLogDropsEarlier(ds, ls, c, state, entry) ==
    [lists |-> ls @@ (NextAddr(ds, ls, c) :> <<entry>>),
     ref |-> NextAddr(ds, ls, c)]

\* A plausible slip: one module-level list that every node appends to.
AppendLogModuleLevel(ds, ls, c, state, entry) ==
    LET shared == <<"module", 1>>
    IN  [lists |-> IF shared \in DOMAIN ls
                   THEN [ls EXCEPT ![shared] = Append(@, entry)]
                   ELSE ls @@ (shared :> <<entry>>),
         ref |-> shared]

\* logs = state.get("logs", []) + [entry]: a new list object.
AppendLog(ds, ls, c, state, entry) ==
    LET old == IF "logs" \in DOMAIN ds[state] THEN ls[ds[state].logs] ELSE <<>>
    IN  [lists |-> ls @@ (NextAddr(ds, ls, c) :> (old \o <<entry>>)),
         ref |-> NextAddr(ds, ls, c)]

\* What a node hands back: the heap after it ran, the address of the dict it
\* returned, and the exception it raised (NoError when it returned).
Returned(ds, ls, c, value) ==
    [dicts |-> ds @@ (NextAddr(ds, ls, c) :> value),
     lists |-> ls,
     ret |-> NextAddr(ds, ls, c),
     raised |-> NoError]

Raised(ds, ls, exc) ==
    [dicts |-> ds, lists |-> ls, ret |-> None, raised |-> exc]

\* A plausible slip: the node updates the state it was given and returns it.
intake_node_in_place(ds, ls, c, state) ==
    IF "original_request" \notin DOMAIN ds[state]
    THEN Raised(ds, ls, KeyError("original_request"))
    ELSE LET parsed == parse_request(ds[state].original_request)
             logs == AppendLog(ds, ls, c, state, IntakePrefix \o ReprParsed(parsed))
         IN  [dicts |-> [ds EXCEPT ![state] =
                            Merge(@, [item |-> parsed.item,
                                      quantity |-> parsed.quantity,
                                      logs |-> logs.ref])],
              lists |-> logs.lists,
              ret |-> state,
              raised |-> NoError]

\* A plausible slip: state.get("original_request", "") where the key is
\* read, so that a state without it does not raise.
intake_node_get_default(ds, ls, c, state) ==
    LET request == IF "original_request" \in DOMAIN ds[state]
                   THEN ds[state].original_request ELSE <<>>
        parsed == parse_request(request)
        logs == AppendLog(ds, ls, c, state, IntakePrefix \o ReprParsed(parsed))
    IN  Returned(ds, logs.lists, c,
                 Merge(ds[state], [item |-> parsed.item,
                                   quantity |-> parsed.quantity,
                                   logs |-> logs.ref]))

\* intake_node: state["original_request"] raises KeyError when the key is
\* missing.
intake_node(ds, ls, c, state) ==
    IF "original_request" \notin DOMAIN ds[state]
    THEN Raised(ds, ls, KeyError("original_request"))
    ELSE LET parsed == parse_request(ds[state].original_request)
             logs == AppendLog(ds, ls, c, state, IntakePrefix \o ReprParsed(parsed))
         IN  Returned(ds, logs.lists, c,
                      Merge(ds[state], [item |-> parsed.item,
                                        quantity |-> parsed.quantity,
                                        logs |-> logs.ref]))

\* A plausible slip: the node also stores the item the lookup normalized.
supplier_node_rewrites_item(ds, ls, c, state) ==
    LET item == IF "item" \in DOMAIN ds[state] THEN ds[state].item ELSE <<>>
        lookup == get_supplier(item)
        logs == AppendLog(ds, ls, c, state, SupplierPrefix \o ReprLookup(lookup))
    IN  Returned(ds, logs.lists, c,
                 Merge(ds[state], [item |-> _normalize(item),
                                   supplier |-> lookup.supplier,
                                   logs |-> logs.ref]))

\* supplier_node
supplier_node(ds, ls, c, state) ==
    LET item == IF "item" \in DOMAIN ds[state] THEN ds[state].item ELSE <<>>
        lookup == get_supplier(item)
        logs == AppendLog(ds, ls, c, state, SupplierPrefix \o ReprLookup(lookup))
    IN  Returned(ds, logs.lists, c,
                 Merge(ds[state], [supplier |-> lookup.supplier,
                                   logs |-> logs.ref]))

\* approval_node
approval_node(ds, ls, c, state) ==
    LET quantity == IF "quantity" \in DOMAIN ds[state] THEN ds[state].quantity ELSE 1
        decision == decide(quantity)
        logs == AppendLog(ds, ls, c, state, ApprovalPrefix \o ReprDecision(decision))
    IN  Returned(ds, logs.lists, c,
                 Merge(ds[state], [approved |-> decision.approved,
                                   reason |-> decision.reason,
                                   logs |-> logs.ref]))

\* The sentinels of langgraph.graph.
START == "__start__"
END == "__end__"

\* A plausible slip: the intake node wired straight to the approval node.
EdgesSkipSupplier ==
    {<<START, "intake">>, <<"intake", "approval">>, <<"approval", END>>}

\* graph.add_edge(...): the edges of the graph.
Edges ==
    {<<START, "intake">>, <<"intake", "supplier">>,
     <<"supplier", "approval">>, <<"approval", END>>}

\* The node the compiled graph runs after n.
Successor(n) == CHOOSE m \in {e[2] : e \in Edges} : <<n, m>> \in Edges

---------------------------------------------------------------------------
\* The requests the model runs.

DefaultRequest == <<"O","r","d","e","r"," ","3"," ","l","a","p","t","o","p","s">>
Order10Chairs == <<"O","r","d","e","r"," ","1","0"," ","c","h","a","i","r","s">>
Buy1Mouse == <<"b","u","y"," ","1"," ","m","o","u","s","e">>
GetDesks == <<"g","e","t"," ","d","e","s","k","s">>
Order5Keyboards == <<"O","r","d","e","r"," ","5"," ","k","e","y","b","o","a","r","d","s">>
Order6Monitors == <<"O","r","d","e","r"," ","6"," ","m","o","n","i","t","o","r","s">>
Reorder2Glass == <<"r","e","o","r","d","e","r"," ","2"," ","g","l","a","s","s">>
ZeroPens == <<"0"," ","p","e","n","s">>
Purchase12Desks3 == <<"P","U","R","C","H","A","S","E"," ","1","2"," ","d","e","s","k","s"," ","3">>
PaddedGetDesks == <<" "," ","g","e","t"," ","d","e","s","k","s"," ">>
BlankLine == <<" ">>

\* The lines a requests file is made of (without their line ends).
RawLines == {DefaultRequest, PaddedGetDesks, BlankLine}

RECURSIVE SeqsUpTo(_, _)
SeqsUpTo(S, n) ==
    IF n = 0 THEN {<<>>}
    ELSE LET shorter == SeqsUpTo(S, n - 1)
         IN  shorter \cup {Append(q, x) : q \in shorter, x \in S}

\* The content of a file with the given lines, each ended by "\n".
RECURSIVE FileContent(_)
FileContent(text) ==
    IF text = <<>> THEN <<>>
    ELSE Head(text) \o <<"\n">> \o FileContent(Tail(text))

\* examples/test_requests.txt: absent, or present with up to MaxLines lines.
Files ==
    {[exists |-> FALSE, text |-> <<>>]}
    \cup {[exists |-> TRUE, text |-> t] : t \in SeqsUpTo(RawLines, MaxLines)}

\* The initial state run_demo builds for a request.
InitialState(request) ==
    [original_request |-> request, logs |-> <<ReceivedPrefix \o request>>]

\* The initial states another call site hands to invoke: those of run_demo,
\* one without logs, one without original_request, one with keys already set.
SiteRequests ==
    {DefaultRequest, Order10Chairs, Buy1Mouse, GetDesks, Order5Keyboards,
     Order6Monitors, Reorder2Glass, ZeroPens, Purchase12Desks3}

SiteInputs ==
    {InitialState(r) : r \in SiteRequests}
    \cup {[original_request |-> DefaultRequest],
          [logs |-> <<ReceivedPrefix \o DefaultRequest>>],
          [original_request |-> Order10Chairs, item |-> <<"p","e","n">>,
           quantity |-> 1, logs |-> <<>>]}

---------------------------------------------------------------------------
\* The state.

Callers == {"main", "site"}

VARIABLES
    file,       \* examples/test_requests.txt
    mpc,        \* where main is
    lines,      \* main's lines
    idx,        \* how many of lines the for loop has taken
    pc,         \* per caller: where its invoke is (a node name, END, ...)
    init,       \* per caller: the address of the initial_state it passed
    saved,      \* per caller: the value of initial_state when it was passed
    chan,       \* per caller: the state the graph holds (its channel values)
    visited,    \* per caller: the nodes the run has called, in order
    call,       \* per caller: the last node call: its argument and result
    final,      \* per caller: the address of the final state invoke returned
    error,      \* per caller: the exception invoke raised
    dicts,      \* heap: address -> dict
    lists       \* heap: address -> list of strings

vars == <<file, mpc, lines, idx, pc, init, saved, chan, visited, call, final,
          error, dicts, lists>>

mainVars == <<file, mpc, lines, idx>>

NoCall == [node |-> "", arg |-> None, before |-> <<>>, ret |-> None]

Init ==
    /\ file \in Files
    /\ mpc = "open"
    /\ lines = <<>>
    /\ idx = 0
    /\ pc = [c \in Callers |-> "idle"]
    /\ init = [c \in Callers |-> None]
    /\ saved = [c \in Callers |-> <<>>]
    /\ chan = [c \in Callers |-> <<>>]
    /\ visited = [c \in Callers |-> <<>>]
    /\ call = [c \in Callers |-> NoCall]
    /\ final = [c \in Callers |-> None]
    /\ error = [c \in Callers |-> NoError]
    /\ dicts = <<>>
    /\ lists = <<>>

---------------------------------------------------------------------------
\* app.invoke(initial_state), as the compiled graph carries it out.

\* The call: the caller's initial_state is built (a dict, and its logs list
\* when it has one), and the graph takes its values as the state; the run
\* stands before the first node.
Invoke(c, value) ==
    LET ds0 == Collect(dicts, c)
        ls0 == Collect(lists, c)
        hasLogs == "logs" \in DOMAIN value
        la == NextAddr(ds0, ls0, c)
        ls1 == IF hasLogs THEN ls0 @@ (la :> value.logs) ELSE ls0
        da == NextAddr(ds0, ls1, c)
        obj == [k \in DOMAIN value |-> IF k = "logs" THEN la ELSE value[k]]
    IN  /\ lists' = ls1
        /\ dicts' = ds0 @@ (da :> obj)
        /\ init' = [init EXCEPT ![c] = da]
        /\ saved' = [saved EXCEPT ![c] = value]
        /\ chan' = [chan EXCEPT ![c] = obj]
        /\ visited' = [visited EXCEPT ![c] = <<>>]
        /\ call' = [call EXCEPT ![c] = NoCall]
        /\ final' = [final EXCEPT ![c] = None]
        /\ error' = [error EXCEPT ![c] = NoError]
        /\ pc' = [pc EXCEPT ![c] = Successor(START)]

\* The address of the dict a node is called with, and the heap holding it:
\* a new dict with the values of the state.
NodeArg(c) == NextAddr(dicts, lists, c)
NodeHeap(c) == dicts @@ (NodeArg(c) :> chan[c])

\* One node of the run: it is called with the state; what it returns is
\* written to the state key by key, and the run moves along the edge; an
\* exception it raises leaves invoke, and the run ends without a result.
RunNode(c, n, r) ==
    /\ pc[c] = n
    /\ dicts' = r.dicts
    /\ lists' = r.lists
    /\ visited' = [visited EXCEPT ![c] = Append(@, n)]
    /\ call' = [call EXCEPT ![c] =
                   [node |-> n, arg |-> NodeArg(c),
                    before |-> Deep(NodeHeap(c), lists, NodeArg(c)),
                    ret |-> r.ret]]
    /\ IF r.raised # NoError
       THEN /\ pc' = [pc EXCEPT ![c] = "raised"]
            /\ error' = [error EXCEPT ![c] = r.raised]
            /\ chan' = chan
       ELSE /\ pc' = [pc EXCEPT ![c] = Successor(n)]
            /\ error' = error
            /\ chan' = [chan EXCEPT ![c] = Merge(@, r.dicts[r.ret])]
    /\ UNCHANGED <<mainVars, init, saved, final>>

\* The three nodes, each called with a new dict holding the state.
Intake(c) ==
    /\ pc[c] = "intake"
    /\ \E h \in {NodeHeap(c)} : \E a \in {NodeArg(c)} :
         \E r \in {intake_node(h, lists, c, a)} : RunNode(c, "intake", r)

Supplier(c) ==
    /\ pc[c] = "supplier"
    /\ \E h \in {NodeHeap(c)} : \E a \in {NodeArg(c)} :
         \E r \in {supplier_node(h, lists, c, a)} : RunNode(c, "supplier", r)

Approval(c) ==
    /\ pc[c] = "approval"
    /\ \E h \in {NodeHeap(c)} : \E a \in {NodeArg(c)} :
         \E r \in {approval_node(h, lists, c, a)} : RunNode(c, "approval", r)

\* END is reached: invoke returns the state as a new dict.
InvokeReturn(c) ==
    /\ pc[c] = END
    /\ dicts' = dicts @@ (NextAddr(dicts, lists, c) :> chan[c])
    /\ final' = [final EXCEPT ![c] = NextAddr(dicts, lists, c)]
    /\ pc' = [pc EXCEPT ![c] = "returned"]
    /\ UNCHANGED <<mainVars, init, saved, chan, visited, call, error, lists>>

---------------------------------------------------------------------------
\* main and run_demo

\* f.readlines(): the content cut after each "\n".
RECURSIVE readlines(_)
readlines(content) ==
    IF content = <<>> THEN <<>>
    ELSE LET ends == {i \in DOMAIN content : content[i] = "\n"}
             cut == IF ends = {} THEN Len(content)
                    ELSE CHOOSE i \in ends : \A j \in ends : i <= j
         IN  <<SubSeq(content, 1, cut)>>
             \o readlines(SubSeq(content, cut + 1, Len(content)))

\* [line.strip() for line in ... if line.strip()]
RECURSIVE StripNonEmpty(_)
StripNonEmpty(ls) ==
    IF ls = <<>> THEN <<>>
    ELSE (IF strip(Head(ls)) # <<>> THEN <<strip(Head(ls))>> ELSE <<>>)
         \o StripNonEmpty(Tail(ls))

\* A plausible slip: no default when the file is absent.
ReadRequestsNoDefault(f) ==
    IF f.exists THEN StripNonEmpty(readlines(FileContent(f.text))) ELSE <<>>

\* The try/except of main: the lines of the file, or the default request.
ReadRequests(f) ==
    IF f.exists THEN StripNonEmpty(readlines(FileContent(f.text)))
    ELSE <<DefaultRequest>>

MainReadFile ==
    /\ mpc = "open"
    /\ lines' = ReadRequests(file)
    /\ mpc' = "loop"
    /\ UNCHANGED <<file, idx, pc, init, saved, chan, visited, call, final,
                   error, dicts, lists>>

\* for req in lines: run_demo(req), up to its app.invoke(initial_state).
RunDemo ==
    /\ mpc = "loop"
    /\ idx < Len(lines)
    /\ idx' = idx + 1
    /\ mpc' = "run_demo"
    /\ \E value \in {InitialState(lines[idx + 1])} : Invoke("main", value)
    /\ UNCHANGED <<file, lines>>

\* run_demo after invoke: the trace and the outcome are printed and the
\* loop goes on; an exception of invoke would leave run_demo and main.
RunDemoReturn ==
    /\ mpc = "run_demo"
    /\ pc["main"] \in {"returned", "raised"}
    /\ mpc' = IF pc["main"] = "raised" THEN "raised" ELSE "loop"
    /\ UNCHANGED <<file, lines, idx, pc, init, saved, chan, visited, call,
                   final, error, dicts, lists>>

MainExit ==
    /\ mpc = "loop"
    /\ idx = Len(lines)
    /\ mpc' = "done"
    /\ UNCHANGED <<file, lines, idx, pc, init, saved, chan, visited, call,
                   final, error, dicts, lists>>

\* Another call site invokes the compiled graph, whenever its previous call
\* is over.
SiteInvoke ==
    /\ pc["site"] \in {"idle", "returned", "raised"}
    /\ \E value \in SiteInputs : Invoke("site", value)
    /\ UNCHANGED mainVars

Next ==
    \/ MainReadFile
    \/ RunDemo
    \/ RunDemoReturn
    \/ MainExit
    \/ SiteInvoke
    \/ \E c \in Callers : Intake(c)
    \/ \E c \in Callers : Supplier(c)
    \/ \E c \in Callers : Approval(c)
    \/ \E c \in Callers : InvokeReturn(c)

Spec == Init /\ [][Next]_vars

\* The run of caller c moves on: its position changes.  A step of Spec does
\* this exactly when it is Intake(c), Supplier(c), Approval(c) or
\* InvokeReturn(c), and one of them is enabled wherever the run stands at a
\* node or at END.
RunAdvances(c) ==
    /\ pc[c] \in {"intake", "supplier", "approval", END}
    /\ \E p \in {"supplier", "approval", END, "returned", "raised"} \ {pc[c]} :
         pc' = [pc EXCEPT ![c] = p]

\* invoke is synchronous and the nodes do not block: a run that stands at a
\* node or at END takes its next step.
FairSpec == Spec /\ \A c \in Callers : WF_pc(RunAdvances(c))

---------------------------------------------------------------------------
\* What the properties speak of.

Nodes == {"intake", "supplier", "approval"}

\* The order of the chain START -> intake -> supplier -> approval -> END.
ChainOrder == <<"intake", "supplier", "approval">>

\* The keys each node writes (END writes none).
Writes(n) ==
    CASE n = "intake" -> {"item", "quantity", "logs"}
      [] n = "supplier" -> {"supplier", "logs"}
      [] n = "approval" -> {"approved", "reason", "logs"}
      [] OTHER -> {}

\* The text each node's log entry starts with.
LogPrefix(n) ==
    CASE n = "intake" -> IntakePrefix
      [] n = "supplier" -> SupplierPrefix
      [] n = "approval" -> ApprovalPrefix

IsPrefix(p, s) == Len(p) <= Len(s) /\ SubSeq(s, 1, Len(p)) = p

Contains(s, sub) ==
    \E i \in 1..(Len(s) - Len(sub) + 1) : SubSeq(s, i, i + Len(sub) - 1) = sub

\* The state the run of caller c holds, its logs included.
Cur(c) ==
    [k \in DOMAIN chan[c] |-> IF k = "logs" THEN lists[chan[c][k]] ELSE chan[c][k]]

\* The logs of a state value; none when it has no logs key.
LogsOf(value) == IF "logs" \in DOMAIN value THEN value.logs ELSE <<>>

\* The final state caller c was returned.
Final(c) == Deep(dicts, lists, final[c])

InRun(c) == pc[c] \in Nodes \cup {END}

Laptop == <<"l","a","p","t","o","p">>
Laptops == <<"l","a","p","t","o","p","s">>
AcmeComputers == <<"A","c","m","e"," ","C","o","m","p","u","t","e","r","s">>

---------------------------------------------------------------------------
\* C1: every invoke on an initial state that has original_request ends at END
\* having run intake, supplier and approval once each, in that order; at no
\* time has a stage run twice or before its predecessor.
C1_EachStageOnceInOrder ==
    /\ [](\A c \in Callers : IsPrefix(visited[c], ChainOrder))
    /\ \A c \in Callers :
          (pc[c] = "intake" /\ "original_request" \in DOMAIN chan[c])
             ~> (pc[c] = "returned" /\ visited[c] = ChainOrder)

C1_Witness ==
    /\ pc["main"] = "returned" /\ visited["main"] = ChainOrder
    /\ pc["site"] = "returned" /\ visited["site"] = ChainOrder

\* C2 as stated: "Order 3 laptops" ends with item "laptop", quantity 3,
\* supplier "Acme Computers" and approved true.
C2_ItemIsLaptop ==
    \A c \in Callers :
        (pc[c] = "returned" /\ saved[c] = [original_request |-> DefaultRequest])
        => /\ Final(c).item = Laptop
           /\ Final(c).quantity = 3
           /\ Final(c).supplier = AcmeComputers
           /\ Final(c).approved = TRUE

\* C2 as amended: "Order 3 laptops" ends with item "laptops" (the plural is
\* kept for a quantity other than 1), quantity 3, supplier "Acme Computers"
\* and approved true.
C2_ItemIsLaptops ==
    \A c \in Callers :
        (pc[c] = "returned" /\ saved[c] = [original_request |-> DefaultRequest])
        => /\ Final(c).item = Laptops
           /\ Final(c).quantity = 3
           /\ Final(c).supplier = AcmeComputers
           /\ Final(c).approved = TRUE

C2_Witness ==
    /\ pc["site"] = "returned"
    /\ saved["site"] = [original_request |-> DefaultRequest]

\* C3: a run ends approved exactly when the quantity intake parsed from the
\* request is at most 5, its reason names that quantity and the threshold 5,
\* and "Order 10 chairs" ends with quantity 10 and not approved.
C3_ApprovedIffAtMostFive ==
    \A c \in Callers :
        pc[c] = "returned"
        => /\ Final(c).quantity = _extract_quantity(Final(c).original_request)
           /\ Final(c).approved = (Final(c).quantity <= 5)
           /\ Contains(Final(c).reason, <<" ">> \o str(Final(c).quantity) \o <<" ">>)
           /\ Contains(Final(c).reason, <<" ", "5", ")">>)
           /\ Final(c).original_request = Order10Chairs
                => Final(c).quantity = 10 /\ Final(c).approved = FALSE

C3_Witness ==
    /\ pc["site"] = "returned"
    /\ saved["site"] = InitialState(Order10Chairs)
    /\ pc["main"] = "returned"
    /\ saved["main"] = InitialState(DefaultRequest)

\* C4: the initial_state a caller passed to invoke keeps the value it had
\* when it was passed, its logs included, during the run and after it,
\* whether the run returned or raised.
C4_InitialStateNotModified ==
    \A c \in Callers :
        init[c] # None => Deep(dicts, lists, init[c]) = saved[c]

C4_Witness ==
    /\ pc["site"] = "raised"
    /\ pc["main"] = "returned"

Held(c) ==
    LET ds == {init[c], final[c], call[c].arg, call[c].ret} \ {None}
    IN  ds \cup {dicts[a].logs : a \in {b \in ds : "logs" \in DOMAIN dicts[b]}}
           \cup (IF "logs" \in DOMAIN chan[c] THEN {chan[c].logs} ELSE {})

\* What a caller can see of its run.
RunView(c) ==
    <<Cur(c),
      IF init[c] # None THEN Deep(dicts, lists, init[c]) ELSE <<>>,
      IF final[c] # None THEN Final(c) ELSE <<>>>>

\* C6: two runs share nothing: every object a run holds is its own, a step
\* of one run changes nothing the other can see, and two runs from equal
\* initial states hold equal states at equal positions, final states
\* included.
C6_RunsShareNoState ==
    /\ [](\A c \in Callers : \A a \in Held(c) : a[1] = c)
    /\ [](\A c, d \in Callers :
            (init[c] # None /\ init[d] # None
             /\ saved[c] = saved[d] /\ pc[c] = pc[d])
            => /\ Cur(c) = Cur(d)
               /\ pc[c] = "returned" => Final(c) = Final(d))
    /\ [][\A c \in Callers :
            (pc'[c] = pc[c] /\ (c = "main" => mpc' = mpc))
            => RunView(c)' = RunView(c)]_vars

C6_Witness ==
    /\ pc["main"] = "supplier"
    /\ pc["site"] = "approval"
    /\ saved["main"] = saved["site"]

\* The stripped, non-blank lines of the file, in its order.
NonBlank(line) == strip(line) # <<>>
RequestsOf(text) ==
    [i \in DOMAIN SelectSeq(text, NonBlank) |-> strip(SelectSeq(text, NonBlank)[i])]

\* C7: with the file absent main makes one run, on "Order 3 laptops", and
\* does not fail; with the file present it makes one run per non-blank line,
\* in the file's order; every run starts from an initial state that holds
\* its request and the one "Received request" entry, nothing else.
C7_OneRunPerRequest ==
    LET expected == IF file.exists THEN RequestsOf(file.text)
                    ELSE <<DefaultRequest>>
    IN  /\ mpc # "raised"
        /\ mpc # "open" => lines = expected /\ idx <= Len(expected)
        /\ mpc = "done" => idx = Len(expected)
        /\ mpc = "run_demo"
             => /\ saved["main"] = InitialState(expected[idx])
                /\ pc["main"] = "intake" => Cur("main") = InitialState(expected[idx])

C7_Witness ==
    /\ ~file.exists
    /\ mpc = "done"
    /\ idx = 1
    /\ Final("main").original_request = DefaultRequest

\* C8 as stated: a node leaves the state it was given as it was and returns
\* only the keys it changes.
C8_FragmentOnlyChangedKeys ==
    \A c \in Callers :
        call[c].ret # None
        => /\ Deep(dicts, lists, call[c].arg) = call[c].before
           /\ DOMAIN dicts[call[c].ret] \subseteq Writes(call[c].node)

\* C8 as amended: a node leaves the state it was given as it was and returns
\* a new dict: the whole state it was given, with the keys it changes
\* replaced; the keys it does not change (original_request, ...) are in it
\* with the values they had.
C8_WholeStateNewDict ==
    \A c \in Callers :
        /\ call[c].arg # None
             => Deep(dicts, lists, call[c].arg) = call[c].before
        /\ call[c].ret # None
             => /\ call[c].ret # call[c].arg
                /\ DOMAIN dicts[call[c].ret]
                     = DOMAIN call[c].before \cup Writes(call[c].node)
                /\ \A k \in DOMAIN call[c].before \ Writes(call[c].node) :
                      Deep(dicts, lists, call[c].ret)[k] = call[c].before[k]

C8_Witness ==
    /\ call["site"].node = "approval"
    /\ call["site"].ret # None
    /\ call["main"].node = "intake"
    /\ call["main"].ret # None

\* C9: in every step of a run each key of the state stays, and changes its
\* value only in the step of a node that writes it; the final state is the
\* state at END, so original_request ends as it began.
C9_KeysChangeOnlyByWriters ==
    /\ [][\A c \in Callers :
            InRun(c) =>
              \A k \in DOMAIN Cur(c) :
                 /\ k \in DOMAIN Cur(c)'
                 /\ Cur(c)'[k] # Cur(c)[k] => k \in Writes(pc[c])]_vars
    /\ [](\A c \in Callers :
            pc[c] = "returned"
            => /\ Final(c) = Cur(c)
               /\ DOMAIN saved[c] \subseteq DOMAIN Final(c)
               /\ Final(c).original_request = saved[c].original_request)

C9_Witness ==
    /\ pc["site"] = "returned"
    /\ "item" \in DOMAIN saved["site"]
    /\ Final("site").item # saved["site"].item

\* C10: each node's result holds the logs it was given followed by one new
\* entry, its own; the logs a run holds only ever grow at the end; and a
\* run of run_demo ends with four entries: received request, intake parsed,
\* supplier selected, approval decision.
C10_LogsGrowByAppending ==
    /\ [](\A c \in Callers :
            call[c].ret # None
            => LET after == Deep(dicts, lists, call[c].ret).logs
               IN  /\ Len(after) = Len(LogsOf(call[c].before)) + 1
                   /\ IsPrefix(LogsOf(call[c].before), after)
                   /\ IsPrefix(LogPrefix(call[c].node), after[Len(after)]))
    /\ [][\A c \in Callers :
            InRun(c) => IsPrefix(LogsOf(Cur(c)), LogsOf(Cur(c)'))]_vars
    /\ [](pc["main"] = "returned"
            => /\ Len(Final("main").logs) = 4
               /\ Final("main").logs[1]
                    = ReceivedPrefix \o Final("main").original_request
               /\ IsPrefix(IntakePrefix, Final("main").logs[2])
               /\ IsPrefix(SupplierPrefix, Final("main").logs[3])
               /\ IsPrefix(ApprovalPrefix, Final("main").logs[4]))

C10_Witness ==
    /\ pc["main"] = "returned"
    /\ Len(Final("main").logs) = 4

=============================================================================
